---- MODULE Spec2Model ----
(***************************************************************************)
(* Model of notebooks/TradingCustomerChurnClassifierSparkML: one run of    *)
(* the notebook's code cells, top to bottom.  Each code cell is one        *)
(* action; a cell that raises ends the run (there is no try/except in the  *)
(* notebook).  Python lists are objects on a heap, so that two names bound *)
(* to one list see each other's writes.                                    *)
(*                                                                         *)
(* Numbers that Spark holds as doubles are kept in tenths (25 is 2.5);     *)
(* numbers of IntegerType are kept in units.                               *)
(***************************************************************************)
EXTENDS Integers, Sequences, FiniteSets, TLC

\* ----------------------------------------------------------------- bounds
MaxRows == 3
NumNumeric == 2

\* ------------------------------------------------------------ sequences
Range(s) == {s[i] : i \in 1..Len(s)}

\* The elements of s whose index is in keep, in order.
SelectIdx(s, keep) ==
  LET F[i \in 0..Len(s)] ==
        IF i = 0 THEN <<>>
        ELSE IF i \in keep THEN Append(F[i - 1], s[i]) ELSE F[i - 1]
  IN F[Len(s)]

IndexOf(s, x) == IF x \in Range(s) THEN CHOOSE i \in 1..Len(s) : s[i] = x /\ \A j \in 1..(i - 1) : s[j] # x ELSE 0

RECURSIVE Concat(_)
Concat(ss) == IF ss = <<>> THEN <<>> ELSE Head(ss) \o Concat(Tail(ss))

RECURSIVE SumSeq(_)
SumSeq(s) == IF s = <<>> THEN 0 ELSE Head(s) + SumSeq(Tail(s))

Perms(n) == {p \in [1..n -> 1..n] : \A i, j \in 1..n : p[i] = p[j] => i = j}

\* ------------------------------------------------------------ the input
\* The column names of the scoring payload, in its order: the dataset's
\* non-label columns.
AllFields ==
  <<"ID", "GENDER", "STATUS", "CHILDREN", "ESTINCOME", "HOMEOWNER", "AGE",
    "TOTALDOLLARVALUETRADED", "TOTALUNITSTRADED", "LARGESTSINGLETRANSACTION",
    "SMALLESTSINGLETRANSACTION", "PERCENTCHANGECALCULATION",
    "DAYSSINCELASTLOGIN", "DAYSSINCELASTTRADE", "NETREALIZEDGAINS_YTD",
    "NETREALIZEDLOSSES_YTD">>

categoricalColumns == <<"GENDER", "STATUS", "HOMEOWNER">>

LabelCol == "CHURNRISK"

\* The numeric columns a modelled dataset has: the first NumNumeric of them.
NumericFields ==
  LET nums == SelectIdx(AllFields,
                        {i \in 1..Len(AllFields) : AllFields[i] \notin Range(categoricalColumns)})
  IN SubSeq(nums, 1, NumNumeric)

BaseColumns ==
  SelectIdx(AllFields,
            {i \in 1..Len(AllFields) :
               AllFields[i] \in Range(categoricalColumns) \cup Range(NumericFields)})

InsertAt(s, p, x) == SubSeq(s, 1, p) \o <<x>> \o SubSeq(s, p + 1, Len(s))

\* Column layouts: CHURNRISK first, in the middle or last; and one layout
\* with a trailing column that is already named 'label'.
LabelPositions == {0, Len(BaseColumns) \div 2, Len(BaseColumns)}

Layouts ==
  {InsertAt(BaseColumns, p, LabelCol) : p \in LabelPositions}
    \cup {Append(InsertAt(BaseColumns, 0, LabelCol), "label")}

\* Row templates: two customers alike in every category but not in churn
\* risk, one of them with a negative amount, and one unlike both.
RowPool ==
  << [GENDER |-> "F", STATUS |-> "M", HOMEOWNER |-> "N", CHURNRISK |-> "High", num |-> 25],
     [GENDER |-> "M", STATUS |-> "S", HOMEOWNER |-> "Y", CHURNRISK |-> "Low", num |-> 7],
     [GENDER |-> "F", STATUS |-> "M", HOMEOWNER |-> "N", CHURNRISK |-> "Medium", num |-> -15] >>

\* Row i of the pandas frame, built from a template: ID is the row number,
\* every other numeric column holds the template's number (in tenths).
MkRow(t, i, columns) ==
  [c \in Range(columns) |->
     IF c \in Range(categoricalColumns) \cup {LabelCol} THEN t[c]
     ELSE IF c = "ID" THEN i * 10
     ELSE t.num]

\* The datasets: up to MaxRows rows, each from a template, rows of the same
\* template adjacent (the split below puts any rows in any frame).
TemplateChoices(n) ==
  {ts \in [1..n -> 1..Len(RowPool)] : \A i \in 1..(n - 1) : ts[i] <= ts[i + 1]}

PandasFrames ==
  UNION { { [columns |-> columns, rows |-> [i \in 1..n |-> MkRow(RowPool[ts[i]], i, columns)]] :
              ts \in TemplateChoices(n), columns \in Layouts } : n \in 0..MaxRows }

\* ------------------------------------------------------- Spark frames
\* A DataFrame: its column names in order, each column's type, the labels
\* attached to a nominal column (ML attribute metadata), its rows, and
\* whether evaluating it raises (Spark evaluates lazily: the raise happens
\* in the cell that first collects the frame).
NoFrame == [columns |-> <<>>, types |-> <<>>, meta |-> <<>>, rows |-> <<>>, raises |-> FALSE]

\* spark.createDataFrame(df_churn_pd): strings stay strings, numbers are
\* doubles (tenths).
createDataFrame(pdf) ==
  [columns |-> pdf.columns,
   types |-> [c \in Range(pdf.columns) |->
                IF c \in Range(categoricalColumns) \cup {LabelCol} THEN "string" ELSE "double"],
   meta |-> [c \in Range(pdf.columns) |-> <<>>],
   rows |-> pdf.rows,
   raises |-> FALSE]

\* SQL null in an integer column: a number none of the modelled datasets
\* holds.
Null == -(2^30)

\* Column.cast(IntegerType()) of one value: a double is truncated toward
\* zero; an integer is kept; a string that is no number becomes null.
CastInteger(v, type) ==
  IF type = "int" THEN v
  ELSE IF type = "string" THEN Null
  ELSE IF v >= 0 THEN v \div 10 ELSE -((-v) \div 10)

\* df.withColumn(c, df[c].cast(IntegerType()))
withColumnCast(df, c) ==
  [df EXCEPT !.types = [@ EXCEPT ![c] = "int"],
             !.rows = [i \in 1..Len(df.rows) |->
                         [df.rows[i] EXCEPT ![c] = CastInteger(@, df.types[c])]]]

\* for colnum in non_categoricalColumns: spark_df_churn = withColumn(...)
RECURSIVE CastAll(_, _)
CastAll(df, cols) ==
  IF cols = <<>> THEN df ELSE CastAll(withColumnCast(df, Head(cols)), Tail(cols))

\* df.withColumn(name, ...) for a new column, given its value per row.
AddColumn(df, name, type, labels, vals) ==
  [columns |-> Append(df.columns, name),
   types |-> (name :> type) @@ df.types,
   meta |-> (name :> labels) @@ df.meta,
   rows |-> [i \in 1..Len(df.rows) |-> (name :> vals[i]) @@ df.rows[i]],
   raises |-> df.raises]

\* df.select(cols), df.drop(col)
SelectCols(df, cols) ==
  [columns |-> cols,
   types |-> [c \in Range(cols) |-> df.types[c]],
   meta |-> [c \in Range(cols) |-> df.meta[c]],
   rows |-> [i \in 1..Len(df.rows) |-> [c \in Range(cols) |-> df.rows[i][c]]],
   raises |-> df.raises]

\* ------------------------------------------------------ pipeline stages
Stage(kind, inputCol, outputCol) ==
  [kind |-> kind, inputCol |-> inputCol, outputCol |-> outputCol,
   inputCols |-> <<>>, labels |-> <<>>, rule |-> 0, fitOn |-> {},
   featureImportances |-> <<>>]

Estimators == {"StringIndexer", "RandomForestClassifier", "NaiveBayes"}

Classifiers == {"RandomForestClassifier", "NaiveBayes"}

ClassifierModels == {"RandomForestClassificationModel", "NaiveBayesModel"}

\* The functions a fitted classifier may compute from a feature vector:
\* rule 0 predicts class 0, rule 1 the sum of the features (in units)
\* modulo the number of classes.
ClassifierRules == {0, 1}

Count(vals, v) == Cardinality({i \in 1..Len(vals) : vals[i] = v})

\* The environment's order among equally frequent values, fixed for a run.
VARIABLE tie

ValueOrder == <<"F", "M", "N", "S", "Y", "High", "Low", "Medium">>

Before(a, b) ==
  IF tie = "ascending" THEN IndexOf(ValueOrder, a) < IndexOf(ValueOrder, b)
  ELSE IndexOf(ValueOrder, a) > IndexOf(ValueOrder, b)

\* StringIndexer.fit: the distinct values by descending frequency.  The
\* order among equally frequent values is not fixed by the library's
\* interface; it is the same whenever the same values are indexed.
FreqOrders(vals) ==
  LET D == Range(vals)
      n == Cardinality(D)
  IN { ls \in [1..n -> D] :
         /\ \A i, j \in 1..n : ls[i] = ls[j] => i = j
         /\ \A i \in 1..(n - 1) :
              \/ Count(vals, ls[i]) > Count(vals, ls[i + 1])
              \/ Count(vals, ls[i]) = Count(vals, ls[i + 1]) /\ Before(ls[i], ls[i + 1]) }

ColumnValues(df, c) == [i \in 1..Len(df.rows) |-> df.rows[i][c]]

\* VectorAssembler: a double feature per numeric column, the entries of a
\* vector column in place (all in tenths).
ToDouble(v, type) == IF type = "int" THEN v * 10 ELSE v

\* Mutant of AssembleRow: a vector column is folded into one slot.
AssembleRowScalar(row, inputCols, types) ==
  [k \in 1..Len(inputCols) |->
     IF types[inputCols[k]] = "vector" THEN SumSeq(row[inputCols[k]])
     ELSE ToDouble(row[inputCols[k]], types[inputCols[k]])]

AssembleRow(row, inputCols, types) ==
  Concat([k \in 1..Len(inputCols) |->
            IF types[inputCols[k]] = "vector" THEN row[inputCols[k]]
            ELSE <<ToDouble(row[inputCols[k]], types[inputCols[k]])>>])

\* OneHotEncoder (dropLast): width is the number of categories minus one;
\* the last category is the zero vector.
OneHotWidth(labels) == IF Len(labels) = 0 THEN 0 ELSE Len(labels) - 1

OneHot(index, labels) == [j \in 1..OneHotWidth(labels) |-> IF j = index + 1 THEN 10 ELSE 0]

Predict(rule, x, numClasses) ==
  IF rule = 0 \/ numClasses = 0 THEN 0
  ELSE LET s == SumSeq(x) \div 10 IN (IF s >= 0 THEN s ELSE -s) % numClasses

\* Transformer.transform of one stage.
TransformStage(s, df) ==
  CASE s.kind = "StringIndexerModel" ->
         LET unseen == \E i \in 1..Len(df.rows) : df.rows[i][s.inputCol] \notin Range(s.labels)
             out == AddColumn(df, s.outputCol, "double", s.labels,
                              [i \in 1..Len(df.rows) |-> IndexOf(s.labels, df.rows[i][s.inputCol]) - 1])
         IN [out EXCEPT !.raises = @ \/ unseen]
    [] s.kind = "OneHotEncoder" ->
         AddColumn(df, s.outputCol, "vector", <<>>,
                   [i \in 1..Len(df.rows) |-> OneHot(df.rows[i][s.inputCol], df.meta[s.inputCol])])
    [] s.kind = "VectorAssembler" ->
         LET nulls == \E i \in 1..Len(df.rows) : \E k \in 1..Len(s.inputCols) :
                        df.types[s.inputCols[k]] = "int" /\ df.rows[i][s.inputCols[k]] = Null
             out == AddColumn(df, s.outputCol, "vector", <<>>,
                              [i \in 1..Len(df.rows) |-> AssembleRow(df.rows[i], s.inputCols, df.types)])
         IN [out EXCEPT !.raises = @ \/ nulls]
    [] s.kind \in ClassifierModels ->
         AddColumn(df, "prediction", "double", <<>>,
                   [i \in 1..Len(df.rows) |-> Predict(s.rule, df.rows[i][s.inputCol], Len(df.meta["label"]))])
    [] s.kind = "IndexToString" ->
         AddColumn(df, s.outputCol, "string", <<>>,
                   [i \in 1..Len(df.rows) |-> s.labels[df.rows[i][s.inputCol] + 1]])

\* PipelineModel.transform: every stage in order.
RECURSIVE TransformAll(_, _)
TransformAll(sts, df) ==
  IF sts = <<>> THEN df ELSE TransformAll(Tail(sts), TransformStage(Head(sts), df))

AllFeatures(df, col) == Concat([i \in 1..Len(df.rows) |-> df.rows[i][col]])

\* The rows of a frame, by their ID as an integer.
FitRows(df) == {CastInteger(df.rows[i]["ID"], df.types["ID"]) : i \in 1..Len(df.rows)}

\* featureImportances of a fitted forest, one weight per slot of the
\* feature vector (the weights stand for the normalised doubles).  A forest
\* that predicts one class has no split and every weight is 0; otherwise a
\* slot weighs the number of values it takes over the training rows less
\* one: no tree splits on a slot that is constant.
ImportancesOf(rule, df, col) ==
  [k \in 1..Len(df.rows[1][col]) |->
     IF rule = 0 THEN 0
     ELSE Cardinality({df.rows[i][col][k] : i \in 1..Len(df.rows)}) - 1]

\* SparseVector.values: the entries that are not zero, in slot order.
SparseValues(v) == SelectIdx(v, {k \in 1..Len(v) : v[k] # 0})

\* SparseVector.indices: the slots (from 0) of the entries that are not zero.
SparseIndices(v) ==
  LET nz == SelectIdx([k \in 1..Len(v) |-> k], {k \in 1..Len(v) : v[k] # 0})
  IN [j \in 1..Len(nz) |-> nz[j] - 1]

\* np.argsort(v): the positions (from 0) in ascending order of value, equal
\* values in position order.
ArgSort(v) ==
  LET rank(k) == 1 + Cardinality({j \in 1..Len(v) : v[j] < v[k] \/ (v[j] = v[k] /\ j < k)})
  IN [p \in 1..Len(v) |-> (CHOOSE k \in 1..Len(v) : rank(k) = p) - 1]

\* a[indices]: numpy indexing of an array by an array of positions (from 0).
Take(a, idx) == [i \in 1..Len(idx) |-> a[idx[i] + 1]]

\* Estimator.fit of one stage: the models it may return; none when it
\* raises (no rows, a frame that raises when evaluated, or, for naive
\* Bayes, a negative feature).  fitOn records the rows of the frame the
\* model was fit on.
FitStage(s, df) ==
  CASE s.kind = "StringIndexer" ->
         {[s EXCEPT !.kind = "StringIndexerModel", !.labels = ls, !.fitOn = FitRows(df)] :
            ls \in FreqOrders(ColumnValues(df, s.inputCol))}
    [] s.kind = "RandomForestClassifier" ->
         IF df.rows = <<>> \/ df.raises THEN {}
         ELSE {[s EXCEPT !.kind = "RandomForestClassificationModel", !.rule = r,
                            !.fitOn = FitRows(df),
                            !.featureImportances = ImportancesOf(r, df, s.inputCol)] :
                 r \in ClassifierRules}
    [] s.kind = "NaiveBayes" ->
         IF df.rows = <<>> \/ df.raises \/ \E x \in Range(AllFeatures(df, s.inputCol)) : x < 0 THEN {}
         ELSE {[s EXCEPT !.kind = "NaiveBayesModel", !.rule = r, !.fitOn = FitRows(df)] : r \in ClassifierRules}

LastEstimator(sts) ==
  IF \E i \in 1..Len(sts) : sts[i].kind \in Estimators
  THEN CHOOSE i \in 1..Len(sts) :
         sts[i].kind \in Estimators /\ \A j \in (i + 1)..Len(sts) : sts[j].kind \notin Estimators
  ELSE 0

\* Pipeline.fit: fits or applies each stage up to the last estimator and
\* collects the transformers in a new list.  The set of lists it may
\* return; empty when a stage raises.
RECURSIVE FitFrom(_, _, _, _)
FitFrom(i, sts, df, acc) ==
  IF i > Len(sts) THEN {acc}
  ELSE IF i > LastEstimator(sts) THEN FitFrom(i + 1, sts, df, Append(acc, sts[i]))
  ELSE IF sts[i].kind \notin Estimators
       THEN FitFrom(i + 1, sts, TransformStage(sts[i], df), Append(acc, sts[i]))
  ELSE UNION { FitFrom(i + 1, sts,
                       IF i < LastEstimator(sts) THEN TransformStage(m, df) ELSE df,
                       Append(acc, m)) : m \in FitStage(sts[i], df) }

PipelineFit(sts, df) == FitFrom(1, sts, df, <<>>)

\* ------------------------------------------------------- python helpers
\* Mutant of ListRemove: drops the last element, whatever x is (list.pop()).
ListRemovePop(s, x) == SubSeq(s, 1, Len(s) - 1)

\* list.remove(x): drops the first occurrence.
ListRemove(s, x) == SelectIdx(s, {i \in 1..Len(s) : i # IndexOf(s, x)})

\* '{:.2f}'.format(c / float(n)), in hundredths.  c / n is rounded to the
\* nearest hundredth; an exact tie (only k/8-like ratios are exact ties in
\* binary) goes to the even neighbour.
Format2f(c, n) ==
  LET q == (100 * c) \div n
      r == (100 * c) % n
  IN IF 2 * r > n \/ (2 * r = n /\ q % 2 = 1) THEN q + 1 ELSE q

\* The (prediction, label) pairs of a scored frame, in row order.
PredictionAndLabels(df) == [i \in 1..Len(df.rows) |-> <<df.rows[i]["prediction"], df.rows[i]["label"]>>]

\* Mutant of CountCorrect: counts only the leading run of correct pairs.
RECURSIVE CountCorrectPrefix(_)
CountCorrectPrefix(pairs) ==
  IF pairs = <<>> \/ Head(pairs)[1] # Head(pairs)[2] THEN 0
  ELSE 1 + CountCorrectPrefix(Tail(pairs))

\* Number of pairs whose prediction equals its label.
RECURSIVE CountCorrect(_)
CountCorrect(pairs) ==
  IF pairs = <<>> THEN 0
  ELSE (IF Head(pairs)[1] = Head(pairs)[2] THEN 1 ELSE 0) + CountCorrect(Tail(pairs))

\* results.filter(label == prediction).count() / float(results.count()), printed.
ModelPrecision(df) == Format2f(CountCorrect(PredictionAndLabels(df)), Len(df.rows))

\* MulticlassMetrics(predictionAndLabels).accuracy, as the exact ratio
\* <<correct, total>>.
MetricsAccuracy(pairs) == <<CountCorrect(pairs), Len(pairs)>>

\* ---------------------------------------------------------------- state
VARIABLES
  pc,                      \* the next code cell, or "failed" / "done"
  df_churn_pd,             \* the pandas frame the notebook is given
  non_categoricalColumns,
  heap,                    \* the python lists of stages, by reference
  stages,                  \* reference into heap (0: unbound)
  spark_df_churn,
  labelIndexer,
  assemblerInputs,
  assembler,
  pipeline,                \* [stages |-> reference]
  train,
  test,
  model,                   \* [stages |-> reference]
  results,
  precision,
  accuracy,
  rfModel,
  features,                \* df_churn_pd.columns
  importances,             \* rfModel.featureImportances.values
  indices,                 \* np.argsort(importances)
  figure,                  \* the bars and tick labels drawn
  stages_nb,
  pipeline_nb,
  model_nb,
  precision_nb,
  calls,                   \* the SDK calls issued so far, with their outcome
  registry,                \* what store_model serialized
  saved,                   \* what dsx_ml save stored
  scoring_payload,
  csv                      \* the CSV files written, by name

vars ==
  <<tie, pc, df_churn_pd, non_categoricalColumns, heap, stages, spark_df_churn,
    labelIndexer, assemblerInputs, assembler, pipeline, train, test, model,
    results, precision, accuracy, rfModel, stages_nb, pipeline_nb, model_nb,
    precision_nb, calls, registry, saved, scoring_payload, csv, features,
    importances, indices, figure>>

NoStage == Stage("None", "", "")

NoPipeline == [stages |-> 0]

NoFile == [columns |-> <<>>, rows |-> <<>>, written |-> FALSE]

NoFigure == [barh |-> <<>>, yticks |-> <<>>, drawn |-> FALSE]

Init ==
  /\ tie \in {"ascending", "descending"}
  /\ pc = "non_categorical"
  /\ df_churn_pd \in PandasFrames
  /\ non_categoricalColumns = <<>>
  /\ heap = <<>>
  /\ stages = 0
  /\ spark_df_churn = NoFrame
  /\ labelIndexer = NoStage
  /\ assemblerInputs = <<>>
  /\ assembler = NoStage
  /\ pipeline = NoPipeline
  /\ train = NoFrame
  /\ test = NoFrame
  /\ model = NoPipeline
  /\ results = NoFrame
  /\ precision = -1
  /\ accuracy = <<0, 0>>
  /\ rfModel = NoStage
  /\ features = <<>>
  /\ importances = <<>>
  /\ indices = <<>>
  /\ figure = NoFigure
  /\ stages_nb = 0
  /\ pipeline_nb = NoPipeline
  /\ model_nb = NoPipeline
  /\ precision_nb = -1
  /\ calls = <<>>
  /\ registry = [model |-> <<>>, pipeline |-> <<>>, stored |-> FALSE]
  /\ saved = [model |-> <<>>, stored |-> FALSE]
  /\ scoring_payload = [fields |-> <<>>, values |-> <<>>]
  /\ csv = [score |-> NoFile, eval |-> NoFile]

\* Mutant of OnError: the cell that raised is run again.
OnErrorRetry(cell) == cell

\* A cell that raises ends the run: nothing catches the exception and no
\* cell is run again.
OnError(cell) == "failed"

\* ------------------------------------------------- the cells' expressions
\* [c for c in columns if c not in categoricalColumns]
NonCategoricalOf(columns) ==
  SelectIdx(columns, {i \in 1..Len(columns) : columns[i] \notin Range(categoricalColumns)})

\* The indexer and the encoder of each categorical column, in loop order.
IndexerEncoderStages(cats) ==
  Concat([k \in 1..Len(cats) |->
            << Stage("StringIndexer", cats[k], cats[k] \o "Index"),
               Stage("OneHotEncoder", cats[k] \o "Index", cats[k] \o "classVec") >>])

LabelIndexerStage == Stage("StringIndexer", LabelCol, "label")

\* Mutant of CastColumns: the loop skips the first column.
CastColumnsSkipFirst(nonCategorical) == Tail(nonCategorical)

\* The columns the cast loop goes over.
CastColumns(nonCategorical) == nonCategorical

\* [c + "classVec" for c in categoricalColumns] + non_categoricalColumns
AssemblerInputsOf(cats, nonCategorical) ==
  [k \in 1..Len(cats) |-> cats[k] \o "classVec"] \o nonCategorical

RandomForest == Stage("RandomForestClassifier", "features", "prediction")

NaiveBayes == Stage("NaiveBayes", "features", "prediction")

\* Mutant of LabelConverter: the labels are taken in reverse order.
LabelConverterReversed(indexer) ==
  [Stage("IndexToString", "prediction", "predictedLabel") EXCEPT
     !.labels = [k \in 1..Len(indexer.labels) |-> indexer.labels[Len(indexer.labels) + 1 - k]]]

\* IndexToString(inputCol="prediction", outputCol="predictedLabel", labels=labelIndexer.labels)
LabelConverter(indexer) ==
  [Stage("IndexToString", "prediction", "predictedLabel") EXCEPT !.labels = indexer.labels]

\* Mutant of TailStages: the classifier is listed before the assembler.
TailStagesClassifierFirst(indexer, asm, classifier) ==
  <<indexer, classifier, asm, LabelConverter(indexer)>>

\* [labelIndexer, assembler, rf, labelConverter]
TailStages(indexer, asm, classifier) ==
  <<indexer, asm, classifier, LabelConverter(indexer)>>

\* Pipeline(stages=ref): the stages param holds the list object it is
\* given; no copy is made.
ParamStages(ref) == ref

\* Mutant of StagesNbTarget: stages_nb names the fitted model's list.
StagesNbFromModel(stagesRef, fittedModel) == fittedModel.stages

\* stages_nb = stages
StagesNbTarget(stagesRef, fittedModel) == stagesRef

\* Mutant of SplitPart: the part is the whole frame.
SplitPartAll(df, S) == df

\* One frame of randomSplit: the rows drawn for it, in frame order.
SplitPart(df, S) == [df EXCEPT !.rows = SelectIdx(df.rows, S)]

ResultColumns == <<"ID", "CHURNRISK", "label", "predictedLabel", "prediction">>

\* Mutant of DropColumn: the frame is returned as it is.
DropColumnNone(df, name) == df

\* DataFrame.drop(name)
DropColumn(df, name) ==
  SelectCols(df, SelectIdx(df.columns, {i \in 1..Len(df.columns) : df.columns[i] # name}))

\* toPandas().to_csv(..., index=False): the header and every row.
ToCsv(df) == [columns |-> df.columns, rows |-> df.rows, written |-> TRUE]

SampleValues == <<4, "F", "M", 2, 52004, "N", 60, 5030, 23, 1257, 125, 3, 1, 1, 1000, 0>>

\* Mutant of Payload: the row of values is not wrapped in a list of rows.
PayloadFlat(fields, values) == [fields |-> fields, values |-> values]

\* {"fields": fields, "values": [values]}
Payload(fields, values) == [fields |-> fields, values |-> <<values>>]

\* The external calls of each publishing cell, in the order the cell makes them.
ClientCalls == <<"WatsonMachineLearningAPIClient">>

ListCalls == <<"repository.list_models", "deployments.list">>

StoreCalls == <<"repository.store_model">>

UidCalls == <<"repository.list_models", "repository.get_model_uid">>

DeployCalls == <<"deployments.create", "deployments.list", "deployments.get_uid">>

UrlCalls == <<"deployments.get_scoring_url">>

ScoreCalls == <<"deployments.score">>

SaveCalls == <<"dsx_ml.save">>

CsvCalls == <<"to_csv">>

\* A cell makes its calls in order until one raises: the first k return,
\* call k + 1 (if any) raises.
Issue(log, cs, k) ==
  log \o [i \in 1..(IF k < Len(cs) THEN k + 1 ELSE k) |-> [call |-> cs[i], ok |-> i <= k]]

\* ---------------------------------------------------------------- cells
\* non_categoricalColumns = [c for c in df_churn_pd.columns if c not in categoricalColumns]
NonCategorical ==
  /\ pc = "non_categorical"
  /\ non_categoricalColumns' = NonCategoricalOf(df_churn_pd.columns)
  /\ pc' = "remove_label"
  /\ UNCHANGED <<tie, features, importances, indices, figure,
                 df_churn_pd, heap, stages, spark_df_churn, labelIndexer,
                 assemblerInputs, assembler, pipeline, train, test, model,
                 results, precision, accuracy, rfModel, stages_nb,
                 pipeline_nb, model_nb, precision_nb, calls, registry, saved,
                 scoring_payload, csv>>

\* non_categoricalColumns.remove('CHURNRISK'): ValueError when it is absent.
RemoveLabel ==
  /\ pc = "remove_label"
  /\ IF LabelCol \in Range(non_categoricalColumns)
     THEN /\ non_categoricalColumns' = ListRemove(non_categoricalColumns, LabelCol)
          /\ pc' = "build_stages"
     ELSE /\ non_categoricalColumns' = non_categoricalColumns
          /\ pc' = OnError("remove_label")
  /\ UNCHANGED <<tie, features, importances, indices, figure,
                 df_churn_pd, heap, stages, spark_df_churn, labelIndexer,
                 assemblerInputs, assembler, pipeline, train, test, model,
                 results, precision, accuracy, rfModel, stages_nb,
                 pipeline_nb, model_nb, precision_nb, calls, registry, saved,
                 scoring_payload, csv>>

\* stages = []; for categoricalCol in categoricalColumns: stages += [stringIndexer, encoder]
BuildStages ==
  /\ pc = "build_stages"
  /\ heap' = Append(heap, IndexerEncoderStages(categoricalColumns))
  /\ stages' = Len(heap')
  /\ pc' = "label_indexer"
  /\ UNCHANGED <<tie, features, importances, indices, figure,
                 df_churn_pd, non_categoricalColumns, spark_df_churn,
                 labelIndexer, assemblerInputs, assembler, pipeline, train,
                 test, model, results, precision, accuracy, rfModel,
                 stages_nb, pipeline_nb, model_nb, precision_nb, calls,
                 registry, saved, scoring_payload, csv>>

\* spark_df_churn = spark.createDataFrame(df_churn_pd)
\* labelIndexer = StringIndexer(inputCol='CHURNRISK', outputCol='label').fit(spark_df_churn)
\* createDataFrame cannot infer a schema from no rows; the indexer refuses
\* a frame that already has its output column.
FitLabelIndexer ==
  /\ pc = "label_indexer"
  /\ IF df_churn_pd.rows = <<>>
     THEN /\ pc' = OnError("label_indexer")
          /\ spark_df_churn' = spark_df_churn
          /\ labelIndexer' = labelIndexer
     ELSE /\ spark_df_churn' = createDataFrame(df_churn_pd)
          /\ IF "label" \in Range(df_churn_pd.columns)
             THEN /\ pc' = OnError("label_indexer")
                  /\ labelIndexer' = labelIndexer
             ELSE /\ labelIndexer' \in FitStage(LabelIndexerStage, spark_df_churn')
                  /\ pc' = "cast"
  /\ UNCHANGED <<tie, features, importances, indices, figure,
                 df_churn_pd, non_categoricalColumns, heap, stages,
                 assemblerInputs, assembler, pipeline, train, test, model,
                 results, precision, accuracy, rfModel, stages_nb,
                 pipeline_nb, model_nb, precision_nb, calls, registry, saved,
                 scoring_payload, csv>>

\* for colnum in non_categoricalColumns: spark_df_churn = spark_df_churn.withColumn(colnum, ...cast(IntegerType()))
CastNumeric ==
  /\ pc = "cast"
  /\ spark_df_churn' = CastAll(spark_df_churn, CastColumns(non_categoricalColumns))
  /\ pc' = "assembler"
  /\ UNCHANGED <<tie, features, importances, indices, figure,
                 df_churn_pd, non_categoricalColumns, heap, stages,
                 labelIndexer, assemblerInputs, assembler, pipeline, train,
                 test, model, results, precision, accuracy, rfModel,
                 stages_nb, pipeline_nb, model_nb, precision_nb, calls,
                 registry, saved, scoring_payload, csv>>

\* assemblerInputs = [c + "classVec" for c in categoricalColumns] + non_categoricalColumns
\* assembler = VectorAssembler(inputCols=assemblerInputs, outputCol="features")
BuildAssembler ==
  /\ pc = "assembler"
  /\ assemblerInputs' = AssemblerInputsOf(categoricalColumns, non_categoricalColumns)
  /\ assembler' = [Stage("VectorAssembler", "", "features") EXCEPT !.inputCols = assemblerInputs']
  /\ pc' = "pipeline"
  /\ UNCHANGED <<tie, features, importances, indices, figure,
                 df_churn_pd, non_categoricalColumns, heap, stages,
                 spark_df_churn, labelIndexer, pipeline, train, test, model,
                 results, precision, accuracy, rfModel, stages_nb,
                 pipeline_nb, model_nb, precision_nb, calls, registry, saved,
                 scoring_payload, csv>>

\* rf = RandomForestClassifier(...); labelConverter = IndexToString(..., labels=labelIndexer.labels)
\* stages += [labelIndexer, assembler, rf, labelConverter]; pipeline = Pipeline(stages=stages)
\* += extends the list in place; the pipeline keeps the list it is given.
BuildPipeline ==
  /\ pc = "pipeline"
  /\ heap' = [heap EXCEPT ![stages] = @ \o TailStages(labelIndexer, assembler, RandomForest)]
  /\ pipeline' = [stages |-> ParamStages(stages)]
  /\ pc' = "split"
  /\ UNCHANGED <<tie, features, importances, indices, figure,
                 df_churn_pd, non_categoricalColumns, stages, spark_df_churn,
                 labelIndexer, assemblerInputs, assembler, train, test,
                 model, results, precision, accuracy, rfModel, stages_nb,
                 pipeline_nb, model_nb, precision_nb, calls, registry, saved,
                 scoring_payload, csv>>

\* train, test = spark_df_churn.randomSplit([0.7, 0.3], seed=100): every row
\* goes to exactly one of the two frames; which one is the sampler's draw.
Split ==
  /\ pc = "split"
  /\ \E S \in SUBSET (1..Len(spark_df_churn.rows)) :
       /\ train' = SplitPart(spark_df_churn, S)
       /\ test' = SplitPart(spark_df_churn, (1..Len(spark_df_churn.rows)) \ S)
  /\ pc' = "fit"
  /\ UNCHANGED <<tie, features, importances, indices, figure,
                 df_churn_pd, non_categoricalColumns, heap, stages,
                 spark_df_churn, labelIndexer, assemblerInputs, assembler,
                 pipeline, model, results, precision, accuracy, rfModel,
                 stages_nb, pipeline_nb, model_nb, precision_nb, calls,
                 registry, saved, scoring_payload, csv>>

\* model = pipeline.fit(train): a PipelineModel over a new list.
FitModel ==
  /\ pc = "fit"
  /\ IF PipelineFit(heap[pipeline.stages], train) = {}
     THEN /\ pc' = OnError("fit")
          /\ heap' = heap
          /\ model' = model
     ELSE /\ \E fitted \in PipelineFit(heap[pipeline.stages], train) :
               heap' = Append(heap, fitted)
          /\ model' = [stages |-> Len(heap')]
          /\ pc' = "results"
  /\ UNCHANGED <<tie, features, importances, indices, figure,
                 df_churn_pd, non_categoricalColumns, stages, spark_df_churn,
                 labelIndexer, assemblerInputs, assembler, pipeline, train,
                 test, results, precision, accuracy, rfModel, stages_nb,
                 pipeline_nb, model_nb, precision_nb, calls, registry, saved,
                 scoring_payload, csv>>

\* results = model.transform(test); results = results.select(ID, CHURNRISK, label,
\* predictedLabel, prediction, probability); results.toPandas().head(6)
\* (the probability column is not modelled).  toPandas collects the frame:
\* a test row with a category the indexers did not see raises here.
ScoreTest ==
  /\ pc = "results"
  /\ LET scored == TransformAll(heap[model.stages], test)
     IN IF scored.raises \/ ~(Range(ResultColumns) \subseteq Range(scored.columns))
        THEN /\ pc' = OnError("results")
             /\ results' = results
        ELSE /\ results' = SelectCols(scored, ResultColumns)
             /\ pc' = "precision"
  /\ UNCHANGED <<tie, features, importances, indices, figure,
                 df_churn_pd, non_categoricalColumns, heap, stages,
                 spark_df_churn, labelIndexer, assemblerInputs, assembler,
                 pipeline, train, test, model, precision, accuracy, rfModel,
                 stages_nb, pipeline_nb, model_nb, precision_nb, calls,
                 registry, saved, scoring_payload, csv>>

\* print('Model Precision = {:.2f}.'.format(... count() / float(results.count())))
\* ZeroDivisionError on an empty test frame.
PrintPrecision ==
  /\ pc = "precision"
  /\ IF results.rows = <<>>
     THEN /\ pc' = OnError("precision")
          /\ precision' = precision
     ELSE /\ precision' = ModelPrecision(results)
          /\ pc' = "metrics"
  /\ UNCHANGED <<tie, features, importances, indices, figure,
                 df_churn_pd, non_categoricalColumns, heap, stages,
                 spark_df_churn, labelIndexer, assemblerInputs, assembler,
                 pipeline, train, test, model, results, accuracy, rfModel,
                 stages_nb, pipeline_nb, model_nb, precision_nb, calls,
                 registry, saved, scoring_payload, csv>>

\* res = model.transform(test); predictionAndLabels = zip(predictions, labels)
\* metrics = MulticlassMetrics(predictionAndLabels); f_measure = metrics.accuracy
EvaluateMetrics ==
  /\ pc = "metrics"
  /\ accuracy' = MetricsAccuracy(PredictionAndLabels(TransformAll(heap[model.stages], test)))
  /\ pc' = "importance"
  /\ UNCHANGED <<tie, features, importances, indices, figure,
                 df_churn_pd, non_categoricalColumns, heap, stages,
                 spark_df_churn, labelIndexer, assemblerInputs, assembler,
                 pipeline, train, test, model, results, precision, rfModel,
                 stages_nb, pipeline_nb, model_nb, precision_nb, calls,
                 registry, saved, scoring_payload, csv>>

\* rfModel = model.stages[-2]; features = df_churn_pd.columns
\* importances = rfModel.featureImportances.values; indices = np.argsort(importances)
FeatureImportance ==
  /\ pc = "importance"
  /\ rfModel' = heap[model.stages][Len(heap[model.stages]) - 1]
  /\ features' = df_churn_pd.columns
  /\ importances' = SparseValues(rfModel'.featureImportances)
  /\ indices' = ArgSort(importances')
  /\ pc' = "plot"
  /\ UNCHANGED <<tie, figure, df_churn_pd, non_categoricalColumns, heap, stages,
                 spark_df_churn, labelIndexer, assemblerInputs, assembler,
                 pipeline, train, test, model, results, precision, accuracy,
                 stages_nb, pipeline_nb, model_nb, precision_nb, calls,
                 registry, saved, scoring_payload, csv>>

\* plt.barh(range(len(indices)), importances[indices], ...)
\* plt.yticks(range(len(indices)), (np.array(features))[indices])
\* IndexError when a position is past the end of features.
PlotImportance ==
  /\ pc = "plot"
  /\ IF \E i \in 1..Len(indices) : indices[i] + 1 > Len(features)
     THEN /\ pc' = OnError("plot")
          /\ figure' = figure
     ELSE /\ figure' = [barh |-> Take(importances, indices),
                        yticks |-> Take(features, indices), drawn |-> TRUE]
          /\ pc' = "naive_bayes"
  /\ UNCHANGED <<tie, features, importances, indices, rfModel, df_churn_pd,
                 non_categoricalColumns, heap, stages, spark_df_churn,
                 labelIndexer, assemblerInputs, assembler, pipeline, train,
                 test, model, results, precision, accuracy, stages_nb,
                 pipeline_nb, model_nb, precision_nb, calls, registry, saved,
                 scoring_payload, csv>>

\* nb = NaiveBayes(...); stages_nb = stages; stages_nb[-2] = nb
\* pipeline_nb = Pipeline(stages=stages_nb); model_nb = pipeline_nb.fit(train)
\* results_nb = model_nb.transform(test); print precision
\* stages_nb is a second name of the list stages names.
NaiveBayesCell ==
  /\ pc = "naive_bayes"
  /\ stages_nb' = StagesNbTarget(stages, model)
  /\ LET h1 == [heap EXCEPT ![stages_nb'] = [@ EXCEPT ![Len(@) - 1] = NaiveBayes]]
         fits == PipelineFit(h1[ParamStages(stages_nb')], train)
     IN /\ pipeline_nb' = [stages |-> ParamStages(stages_nb')]
        /\ IF fits = {}
           THEN /\ heap' = h1
                /\ model_nb' = model_nb
                /\ precision_nb' = precision_nb
                /\ pc' = OnError("naive_bayes")
           ELSE /\ \E fitted \in fits : heap' = Append(h1, fitted)
                /\ model_nb' = [stages |-> Len(heap')]
                /\ precision_nb' = ModelPrecision(TransformAll(heap'[model_nb'.stages], test))
                /\ pc' = "client"
  /\ UNCHANGED <<tie, features, importances, indices, figure,
                 df_churn_pd, non_categoricalColumns, stages, spark_df_churn,
                 labelIndexer, assemblerInputs, assembler, pipeline, train,
                 test, model, results, precision, accuracy, rfModel, calls,
                 registry, saved, scoring_payload, csv>>

\* client = WatsonMachineLearningAPIClient(wml_credentials)
CreateClient ==
  /\ pc = "client"
  /\ \E k \in 0..Len(ClientCalls) :
       /\ calls' = Issue(calls, ClientCalls, k)
       /\ IF k = Len(ClientCalls)
          THEN /\ pc' = "list_assets"
          ELSE /\ pc' = OnError("client")
  /\ UNCHANGED <<tie, features, importances, indices, figure,
                 df_churn_pd, non_categoricalColumns, heap, stages,
                 spark_df_churn, labelIndexer, assemblerInputs, assembler,
                 pipeline, train, test, model, results, precision, accuracy,
                 rfModel, stages_nb, pipeline_nb, model_nb, precision_nb,
                 registry, saved, scoring_payload, csv>>

\* client.repository.list_models(); client.deployments.list()
ListAssets ==
  /\ pc = "list_assets"
  /\ \E k \in 0..Len(ListCalls) :
       /\ calls' = Issue(calls, ListCalls, k)
       /\ IF k = Len(ListCalls)
          THEN /\ pc' = "store"
          ELSE /\ pc' = OnError("list_assets")
  /\ UNCHANGED <<tie, features, importances, indices, figure,
                 df_churn_pd, non_categoricalColumns, heap, stages,
                 spark_df_churn, labelIndexer, assemblerInputs, assembler,
                 pipeline, train, test, model, results, precision, accuracy,
                 rfModel, stages_nb, pipeline_nb, model_nb, precision_nb,
                 registry, saved, scoring_payload, csv>>

\* published_model = client.repository.store_model(model=model, pipeline=pipeline,
\*                       meta_props=model_props, training_data=train)
StoreModel ==
  /\ pc = "store"
  /\ \E k \in 0..Len(StoreCalls) :
       /\ calls' = Issue(calls, StoreCalls, k)
       /\ IF k = Len(StoreCalls)
          THEN /\ pc' = "model_uid"
               /\ registry' = [model |-> heap[model.stages], pipeline |-> heap[pipeline.stages], stored |-> TRUE]
          ELSE /\ pc' = OnError("store")
               /\ registry' = registry
  /\ UNCHANGED <<tie, features, importances, indices, figure,
                 df_churn_pd, non_categoricalColumns, heap, stages,
                 spark_df_churn, labelIndexer, assemblerInputs, assembler,
                 pipeline, train, test, model, results, precision, accuracy,
                 rfModel, stages_nb, pipeline_nb, model_nb, precision_nb,
                 saved, scoring_payload, csv>>

\* client.repository.list_models(); model_uid = client.repository.get_model_uid(published_model)
GetModelUid ==
  /\ pc = "model_uid"
  /\ \E k \in 0..Len(UidCalls) :
       /\ calls' = Issue(calls, UidCalls, k)
       /\ IF k = Len(UidCalls)
          THEN /\ pc' = "deploy"
          ELSE /\ pc' = OnError("model_uid")
  /\ UNCHANGED <<tie, features, importances, indices, figure,
                 df_churn_pd, non_categoricalColumns, heap, stages,
                 spark_df_churn, labelIndexer, assemblerInputs, assembler,
                 pipeline, train, test, model, results, precision, accuracy,
                 rfModel, stages_nb, pipeline_nb, model_nb, precision_nb,
                 registry, saved, scoring_payload, csv>>

\* created_deployment = client.deployments.create(model_uid, ...); client.deployments.list()
\* deployment_uid = client.deployments.get_uid(created_deployment)
CreateDeployment ==
  /\ pc = "deploy"
  /\ \E k \in 0..Len(DeployCalls) :
       /\ calls' = Issue(calls, DeployCalls, k)
       /\ IF k = Len(DeployCalls)
          THEN /\ pc' = "scoring_url"
          ELSE /\ pc' = OnError("deploy")
  /\ UNCHANGED <<tie, features, importances, indices, figure,
                 df_churn_pd, non_categoricalColumns, heap, stages,
                 spark_df_churn, labelIndexer, assemblerInputs, assembler,
                 pipeline, train, test, model, results, precision, accuracy,
                 rfModel, stages_nb, pipeline_nb, model_nb, precision_nb,
                 registry, saved, scoring_payload, csv>>

\* scoring_endpoint = client.deployments.get_scoring_url(created_deployment)
GetScoringUrl ==
  /\ pc = "scoring_url"
  /\ \E k \in 0..Len(UrlCalls) :
       /\ calls' = Issue(calls, UrlCalls, k)
       /\ IF k = Len(UrlCalls)
          THEN /\ pc' = "payload"
          ELSE /\ pc' = OnError("scoring_url")
  /\ UNCHANGED <<tie, features, importances, indices, figure,
                 df_churn_pd, non_categoricalColumns, heap, stages,
                 spark_df_churn, labelIndexer, assemblerInputs, assembler,
                 pipeline, train, test, model, results, precision, accuracy,
                 rfModel, stages_nb, pipeline_nb, model_nb, precision_nb,
                 registry, saved, scoring_payload, csv>>

\* scoring_payload = {"fields": fields, "values": [values]}
BuildPayload ==
  /\ pc = "payload"
  /\ scoring_payload' = Payload(AllFields, SampleValues)
  /\ pc' = "score"
  /\ UNCHANGED <<tie, features, importances, indices, figure,
                 df_churn_pd, non_categoricalColumns, heap, stages,
                 spark_df_churn, labelIndexer, assemblerInputs, assembler,
                 pipeline, train, test, model, results, precision, accuracy,
                 rfModel, stages_nb, pipeline_nb, model_nb, precision_nb,
                 calls, registry, saved, csv>>

\* predictions = client.deployments.score(scoring_endpoint, scoring_payload)
ScoreRequest ==
  /\ pc = "score"
  /\ \E k \in 0..Len(ScoreCalls) :
       /\ calls' = Issue(calls, ScoreCalls, k)
       /\ IF k = Len(ScoreCalls)
          THEN /\ pc' = "save_local"
          ELSE /\ pc' = OnError("score")
  /\ UNCHANGED <<tie, features, importances, indices, figure,
                 df_churn_pd, non_categoricalColumns, heap, stages,
                 spark_df_churn, labelIndexer, assemblerInputs, assembler,
                 pipeline, train, test, model, results, precision, accuracy,
                 rfModel, stages_nb, pipeline_nb, model_nb, precision_nb,
                 registry, saved, scoring_payload, csv>>

\* save(name=..., model=model, test_data=test, ...)
SaveLocal ==
  /\ pc = "save_local"
  /\ \E k \in 0..Len(SaveCalls) :
       /\ calls' = Issue(calls, SaveCalls, k)
       /\ IF k = Len(SaveCalls)
          THEN /\ pc' = "score_csv"
               /\ saved' = [model |-> heap[model.stages], stored |-> TRUE]
          ELSE /\ pc' = OnError("save_local")
               /\ saved' = saved
  /\ UNCHANGED <<tie, features, importances, indices, figure,
                 df_churn_pd, non_categoricalColumns, heap, stages,
                 spark_df_churn, labelIndexer, assemblerInputs, assembler,
                 pipeline, train, test, model, results, precision, accuracy,
                 rfModel, stages_nb, pipeline_nb, model_nb, precision_nb,
                 registry, scoring_payload, csv>>

\* write_score_CSV = test.toPandas().drop(['CHURNRISK'], axis=1); write_score_CSV.to_csv(...)
WriteScoreCSV ==
  /\ pc = "score_csv"
  /\ \E k \in 0..Len(CsvCalls) :
       /\ calls' = Issue(calls, CsvCalls, k)
       /\ IF k = Len(CsvCalls)
          THEN /\ pc' = "eval_csv"
               /\ csv' = [csv EXCEPT !.score = ToCsv(DropColumn(test, LabelCol))]
          ELSE /\ pc' = OnError("score_csv")
               /\ csv' = csv
  /\ UNCHANGED <<tie, features, importances, indices, figure,
                 df_churn_pd, non_categoricalColumns, heap, stages,
                 spark_df_churn, labelIndexer, assemblerInputs, assembler,
                 pipeline, train, test, model, results, precision, accuracy,
                 rfModel, stages_nb, pipeline_nb, model_nb, precision_nb,
                 registry, saved, scoring_payload>>

\* write_eval_CSV = test.toPandas(); write_eval_CSV.to_csv(...)
WriteEvalCSV ==
  /\ pc = "eval_csv"
  /\ \E k \in 0..Len(CsvCalls) :
       /\ calls' = Issue(calls, CsvCalls, k)
       /\ IF k = Len(CsvCalls)
          THEN /\ pc' = "done"
               /\ csv' = [csv EXCEPT !.eval = ToCsv(test)]
          ELSE /\ pc' = OnError("eval_csv")
               /\ csv' = csv
  /\ UNCHANGED <<tie, features, importances, indices, figure,
                 df_churn_pd, non_categoricalColumns, heap, stages,
                 spark_df_churn, labelIndexer, assemblerInputs, assembler,
                 pipeline, train, test, model, results, precision, accuracy,
                 rfModel, stages_nb, pipeline_nb, model_nb, precision_nb,
                 registry, saved, scoring_payload>>


Next ==
  \/ NonCategorical
  \/ RemoveLabel
  \/ BuildStages
  \/ FitLabelIndexer
  \/ CastNumeric
  \/ BuildAssembler
  \/ BuildPipeline
  \/ Split
  \/ FitModel
  \/ ScoreTest
  \/ PrintPrecision
  \/ EvaluateMetrics
  \/ FeatureImportance
  \/ PlotImportance
  \/ NaiveBayesCell
  \/ CreateClient
  \/ ListAssets
  \/ StoreModel
  \/ GetModelUid
  \/ CreateDeployment
  \/ GetScoringUrl
  \/ BuildPayload
  \/ ScoreRequest
  \/ SaveLocal
  \/ WriteScoreCSV
  \/ WriteEvalCSV

Spec == Init /\ [][Next]_vars

\* ================================================================ claims
NumericColumns ==
  SelectIdx(df_churn_pd.columns,
            {i \in 1..Len(df_churn_pd.columns) :
               df_churn_pd.columns[i] \notin Range(categoricalColumns) \cup {LabelCol}})

\* C1: the assembler's input list is the three one-hot columns followed by
\* every dataset column that is neither categorical nor CHURNRISK, in
\* dataset order; CHURNRISK and 'label' are never among them.  It holds of
\* the assembler wherever it is held: the variable and every stage list.
AssemblerInputsExact ==
  LET expected == <<"GENDERclassVec", "STATUSclassVec", "HOMEOWNERclassVec">> \o NumericColumns
      good(a) == /\ a.inputCols = expected
                 /\ LabelCol \notin Range(a.inputCols)
                 /\ "label" \notin Range(a.inputCols)
  IN /\ assembler # NoStage => good(assembler) /\ assemblerInputs = expected
     /\ \A r \in 1..Len(heap) : \A i \in 1..Len(heap[r]) :
          heap[r][i].kind = "VectorAssembler" => good(heap[r][i])

\* C1 witness: the assembler is built for a dataset whose label column
\* sits between the feature columns.
AssemblerBuiltMidLabel ==
  /\ assembler # NoStage
  /\ pipeline # NoPipeline
  /\ IndexOf(df_churn_pd.columns, LabelCol) \notin {1, Len(df_churn_pd.columns)}

IndexOfKind(sts, kinds) ==
  IF \E i \in 1..Len(sts) : sts[i].kind \in kinds
  THEN CHOOSE i \in 1..Len(sts) : sts[i].kind \in kinds /\ \A j \in 1..(i - 1) : sts[j].kind \notin kinds
  ELSE 0

OrderedComposition(sts) ==
  LET asm == IndexOfKind(sts, {"VectorAssembler"})
      cls == IndexOfKind(sts, Classifiers)
      dec == IndexOfKind(sts, {"IndexToString"})
  IN /\ \A k \in 1..Len(categoricalColumns) :
          \E i \in 1..(Len(sts) - 1) :
            /\ sts[i].kind = "StringIndexer" /\ sts[i].inputCol = categoricalColumns[k]
            /\ sts[i + 1].kind = "OneHotEncoder" /\ sts[i + 1].inputCol = sts[i].outputCol
            /\ \A j \in 1..Len(sts) :
                 (sts[j].kind = "StringIndexer" /\ sts[j].inputCol = categoricalColumns[k]) => j = i
     /\ asm > 0 /\ cls > 0 /\ dec > 0
     /\ \A i \in 1..Len(sts) : sts[i].kind = "OneHotEncoder" => i < asm
     /\ asm < cls
     /\ cls < dec
     /\ dec = Len(sts)
     /\ Cardinality({i \in 1..Len(sts) : sts[i].kind \in Classifiers}) = 1

\* C2: each pipeline that is fit (the one named pipeline, from the cell
\* that builds it on; the naive-Bayes one, fit in its own cell) has
\* indexer immediately before encoder per categorical column, encoders
\* before the assembler, assembler before the classifier, and the
\* classifier before the label decoder, which is last.
FitPipelineOrdered ==
  /\ pipeline # NoPipeline => OrderedComposition(heap[pipeline.stages])
  /\ pipeline_nb # NoPipeline => OrderedComposition(heap[pipeline_nb.stages])

\* C2 witness: both pipelines have been fit.
BothPipelinesFit == model # NoPipeline /\ model_nb # NoPipeline

IsCastOf(row, cols) ==
  \E i \in 1..Len(df_churn_pd.rows) :
    \A c \in Range(cols) :
      LET v == df_churn_pd.rows[i][c]
      IN row[c] = IF c \in Range(NumericColumns)
                  THEN (IF v >= 0 THEN v \div 10 ELSE -((-v) \div 10))
                  ELSE v

AllCast(df) ==
  /\ \A c \in Range(NumericColumns) : df.types[c] = "int"
  /\ \A i \in 1..Len(df.rows) : IsCastOf(df.rows[i], df.columns)

\* C3: once the cast cell has run, the frame that is split has every
\* numeric column as integer; so have train and test when the pipeline is
\* fit or applied, and the rows written to the CSV files are cast rows.
NumericCastBeforeAssembly ==
  /\ assemblerInputs # <<>> => AllCast(spark_df_churn)
  /\ train # NoFrame => AllCast(train) /\ AllCast(test)
  /\ \A f \in {csv.score, csv.eval} :
       f.written => \A i \in 1..Len(f.rows) : IsCastOf(f.rows[i], f.columns)

\* C3 witness: both files are written from a test frame with rows, after
\* the model was fit on cast rows.
CastRowsExported ==
  /\ csv.score.written /\ csv.eval.written
  /\ test.rows # <<>>
  /\ model # NoPipeline

FeatureLengthOk(fitted, df) ==
  LET scored == TransformAll(fitted, df)
  IN \A i \in 1..Len(scored.rows) :
       Len(scored.rows[i]["features"]) =
         Len(scored.rows[i]["GENDERclassVec"]) + Len(scored.rows[i]["STATUSclassVec"])
           + Len(scored.rows[i]["HOMEOWNERclassVec"]) + Len(NumericColumns)

\* C4: for every row the fitted pipelines score (train rows, and test rows
\* when scoring them does not raise), the feature vector is as long as the
\* three one-hot vectors together plus the number of numeric columns.
FeatureVectorLength ==
  /\ pc = "results" =>
       /\ FeatureLengthOk(heap[model.stages], train)
       /\ ~TransformAll(heap[model.stages], test).raises => FeatureLengthOk(heap[model.stages], test)
  /\ pc = "client" => FeatureLengthOk(heap[model_nb.stages], test)

\* C4 witness: a test row is scored by a model whose one-hot vectors are
\* not empty.
WideFeaturesScored ==
  /\ pc = "precision"
  /\ results.rows # <<>>
  /\ \E i \in 1..Len(heap[model.stages]) :
       heap[model.stages][i].kind = "StringIndexerModel" /\ Len(heap[model.stages][i].labels) = 2

Ids(rows) == {rows[i]["ID"] : i \in 1..Len(rows)}

\* C5: the evaluation file holds the test frame's columns and rows; the
\* batch-score file holds the same rows in the same order with every
\* column but CHURNRISK; no row of train is in either, none of test is
\* missing.
CsvExportsFromTest ==
  /\ csv.eval.written =>
       /\ csv.eval.columns = test.columns
       /\ csv.eval.rows = test.rows
       /\ LabelCol \in Range(csv.eval.columns)
       /\ Ids(csv.eval.rows) \cap Ids(train.rows) = {}
  /\ csv.score.written =>
       /\ csv.score.columns =
            SelectIdx(test.columns, {i \in 1..Len(test.columns) : test.columns[i] # LabelCol})
       /\ Len(csv.score.rows) = Len(test.rows)
       /\ \A i \in 1..Len(test.rows) :
            /\ DOMAIN csv.score.rows[i] = Range(test.columns) \ {LabelCol}
            /\ \A c \in DOMAIN csv.score.rows[i] : csv.score.rows[i][c] = test.rows[i][c]
       /\ Ids(csv.score.rows) \cap Ids(train.rows) = {}
       /\ Ids(csv.score.rows) \cup Ids(train.rows) = Ids(spark_df_churn.rows)

\* C5 witness: both files are written for a test frame of two rows or more.
BothCsvWritten ==
  /\ csv.eval.written /\ csv.score.written
  /\ Len(test.rows) >= 2
  /\ train.rows # <<>>

Permuted(df, p) == [df EXCEPT !.rows = [i \in 1..Len(df.rows) |-> df.rows[p[i]]]]

\* C6: scoring the test rows in any other order gives the same printed
\* 'Model Precision' and the same MulticlassMetrics accuracy.
AccuracyOrderInvariant ==
  pc = "importance" =>
    \A p \in Perms(Len(test.rows)) :
      LET scored == TransformAll(heap[model.stages], Permuted(test, p))
      IN /\ ModelPrecision(SelectCols(scored, ResultColumns)) = precision
         /\ MetricsAccuracy(PredictionAndLabels(scored)) = accuracy

\* C6 witness: accuracy was computed over rows of which some are right and
\* some are wrong.
MixedAccuracyComputed ==
  /\ pc = "importance"
  /\ accuracy[1] > 0
  /\ accuracy[1] < accuracy[2]

ClassifierOf(sts) == sts[Len(sts) - 1]

\* C8: once model is bound, no step rebinds it or changes its stage list;
\* what store_model and save are given is that list, and its classifier
\* is the fitted random forest whose importances were read.
ModelImmutableOnceFit ==
  /\ [][model # NoPipeline =>
          /\ model' = model
          /\ heap'[model.stages] = heap[model.stages]]_vars
  /\ [](registry.stored =>
          /\ registry.model = heap[model.stages]
          /\ ClassifierOf(registry.model) = rfModel
          /\ rfModel.kind = "RandomForestClassificationModel")
  /\ [](saved.stored =>
          /\ saved.model = heap[model.stages]
          /\ ClassifierOf(saved.model) = rfModel)

\* C8 witness: the model is stored and saved after the naive-Bayes
\* pipeline was built and fit.
ModelPublishedAfterNaiveBayes ==
  /\ registry.stored
  /\ saved.stored
  /\ model_nb # NoPipeline

\* C9: what store_model is given as pipeline has the random-forest
\* classifier as its classifier stage, and is stage for stage the
\* definition the stored model was fit from.
StoredPipelineIsRandomForest ==
  registry.stored =>
    /\ ClassifierOf(registry.pipeline).kind = "RandomForestClassifier"
    /\ Len(registry.pipeline) = Len(registry.model)
    /\ \A i \in 1..Len(registry.pipeline) :
         /\ registry.pipeline[i].inputCol = registry.model[i].inputCol
         /\ registry.pipeline[i].kind \in Classifiers =>
              registry.model[i].kind = "RandomForestClassificationModel"

PublishingCalls ==
  <<"repository.store_model", "repository.get_model_uid", "deployments.create",
    "deployments.get_scoring_url", "deployments.score">>

Positions(c) == {i \in 1..Len(calls) : calls[i].call = c}

ReturnedBefore(a, j) == \E i \in 1..(j - 1) : calls[i].call = a /\ calls[i].ok

\* C10: each publishing call is issued at most once; a call is issued only
\* after the one before it in the chain store, uid, deploy, url, score has
\* returned; nothing is issued after a call that raised; the model is
\* stored only after it was fit and evaluated.
PublishingOrder ==
  /\ \A k \in 1..Len(PublishingCalls) : Cardinality(Positions(PublishingCalls[k])) <= 1
  /\ \A k \in 2..Len(PublishingCalls) :
       \A j \in Positions(PublishingCalls[k]) : ReturnedBefore(PublishingCalls[k - 1], j)
  /\ \A i \in 1..Len(calls) : ~calls[i].ok => i = Len(calls)
  /\ Positions("repository.store_model") # {} =>
       /\ model # NoPipeline
       /\ precision >= 0
       /\ accuracy[2] > 0

\* C10 witness: the scoring request was issued and returned.
ScoringRequestIssued ==
  \E i \in 1..Len(calls) : calls[i].call = "deployments.score" /\ calls[i].ok

\* The columns a stage list reads that no stage of it writes, the label
\* column apart: the columns a scoring request has to supply.
PipelineInputs(sts) ==
  LET reads == UNION {{sts[i].inputCol} \cup Range(sts[i].inputCols) : i \in 1..Len(sts)}
      writes == {sts[i].outputCol : i \in 1..Len(sts)}
  IN (reads \ writes) \ {"", LabelCol}

\* C11: the payload has one row of values, as long as the list of fields;
\* every non-label input column of the deployed pipeline (the categorical
\* columns and the numeric columns the assembler reads) is a field exactly
\* once; CHURNRISK is no field.
PayloadShape ==
  scoring_payload.fields # <<>> =>
    /\ DOMAIN scoring_payload = {"fields", "values"}
    /\ Len(scoring_payload.values) = 1
    /\ Len(scoring_payload.values[1]) = Len(scoring_payload.fields)
    /\ \A c \in PipelineInputs(heap[model.stages]) :
         Cardinality({i \in 1..Len(scoring_payload.fields) : scoring_payload.fields[i] = c}) = 1
    /\ Range(categoricalColumns) \cup Range(NumericColumns) \subseteq PipelineInputs(heap[model.stages])
    /\ LabelCol \notin Range(scoring_payload.fields)

\* C11 witness: the scoring request was issued with the payload.
PayloadScored ==
  /\ scoring_payload.fields # <<>>
  /\ \E i \in 1..Len(calls) : calls[i].call = "deployments.score"
  /\ Len(NumericColumns) >= 2

\* The stage of a fitted list that indexes CHURNRISK, and the one that
\* decodes predictions.
LabelIndexerOf(sts) ==
  sts[CHOOSE i \in 1..Len(sts) : sts[i].kind = "StringIndexerModel" /\ sts[i].inputCol = LabelCol]

LabelDecoderOf(sts) == sts[CHOOSE i \in 1..Len(sts) : sts[i].kind = "IndexToString"]

\* C14: the decoder of the fitted model carries the labels of its label
\* indexer, so decoding the index of a class gives the class back, and in
\* every scored row predictedLabel equals CHURNRISK exactly when prediction
\* equals label.
LabelRoundTrip ==
  results # NoFrame =>
    LET idx == LabelIndexerOf(heap[model.stages])
        dec == LabelDecoderOf(heap[model.stages])
    IN /\ idx.labels = labelIndexer.labels
       /\ \A c \in Range(idx.labels) : dec.labels[(IndexOf(idx.labels, c) - 1) + 1] = c
       /\ \A i \in 1..Len(results.rows) :
            /\ results.rows[i]["label"] = IndexOf(idx.labels, results.rows[i]["CHURNRISK"]) - 1
            /\ results.rows[i]["predictedLabel"] = dec.labels[results.rows[i]["prediction"] + 1]
            /\ (results.rows[i]["predictedLabel"] = results.rows[i]["CHURNRISK"])
                 <=> (results.rows[i]["prediction"] = results.rows[i]["label"])

\* C14 witness: a scored frame with a right and a wrong prediction, over at
\* least two classes.
RightAndWrongDecoded ==
  /\ results # NoFrame
  /\ Len(labelIndexer.labels) >= 2
  /\ \E i, j \in 1..Len(results.rows) :
       /\ results.rows[i]["predictedLabel"] = results.rows[i]["CHURNRISK"]
       /\ results.rows[j]["predictedLabel"] # results.rows[j]["CHURNRISK"]

\* The stage lists of the fitted pipelines that are evaluated on test.
EvaluatedStageLists ==
  {heap[m.stages] : m \in {x \in {model, model_nb} : x.stages # 0}}

IsLabelIndexer(s) == s.kind = "StringIndexerModel" /\ s.inputCol = LabelCol

IsFitted(s) == s.kind \in {"StringIndexerModel"} \cup ClassifierModels

RECURSIVE SourceColumn(_, _)
SourceColumn(sts, c) ==
  IF \E i \in 1..Len(sts) : sts[i].outputCol = c /\ sts[i].inputCol # ""
  THEN SourceColumn(sts, sts[CHOOSE i \in 1..Len(sts) : sts[i].outputCol = c].inputCol)
  ELSE c

\* The number of slots of the feature vector an assembler input fills.
SlotWidth(sts, c) ==
  IF \E i \in 1..Len(sts) : sts[i].kind = "OneHotEncoder" /\ sts[i].outputCol = c
  THEN LET enc == sts[CHOOSE i \in 1..Len(sts) : sts[i].kind = "OneHotEncoder" /\ sts[i].outputCol = c]
           idx == sts[CHOOSE i \in 1..Len(sts) : sts[i].outputCol = enc.inputCol]
       IN OneHotWidth(idx.labels)
  ELSE 1

\* For each slot of the feature vector, the dataset column that feeds it.
SlotColumns(sts) ==
  LET asm == sts[CHOOSE i \in 1..Len(sts) : sts[i].kind = "VectorAssembler"]
  IN Concat([k \in 1..Len(asm.inputCols) |->
               [j \in 1..SlotWidth(sts, asm.inputCols[k]) |-> SourceColumn(sts, asm.inputCols[k])]])

\* C13: the importances are those of the forest at model.stages[-2]; every
\* bar shows the importance of one slot of the feature vector under the
\* name of the dataset column that feeds that slot; the bars ascend.
BarsNameTheirSlots ==
  figure.drawn =>
    LET sts == heap[model.stages]
        slots == SparseIndices(rfModel.featureImportances)
    IN /\ rfModel = sts[Len(sts) - 1]
       /\ rfModel.kind = "RandomForestClassificationModel"
       /\ Len(rfModel.featureImportances) = Len(SlotColumns(sts))
       /\ Len(figure.barh) = Len(importances)
       /\ \A i \in 1..Len(figure.barh) :
            /\ figure.barh[i] = rfModel.featureImportances[slots[indices[i] + 1] + 1]
            /\ figure.yticks[i] = features[indices[i] + 1]
            /\ figure.yticks[i] = SlotColumns(sts)[slots[indices[i] + 1] + 1]
       /\ \A i \in 1..Len(figure.barh) : \A j \in i..Len(figure.barh) :
            figure.barh[i] <= figure.barh[j]

====
